---- MODULE Spec2Model ----
(***************************************************************************)
(* Model of owrx/sdr.py: the device registry (MappedSdrSources), the two   *)
(* derived views (ActiveSdrSources, AvailableProfiles), the per-device     *)
(* SourceStateHandler and the SdrService accessors; and of                 *)
(* owrx/reporting.py: the ReportingEngine singleton and its reporters.     *)
(*                                                                         *)
(* Propagation is synchronous: the thread that mutates a layer runs every  *)
(* watcher inline, so each operation below is one atomic action that       *)
(* carries the whole cascade.  The operators work on a record w ("world")  *)
(* holding the objects' fields; an exception raised on the way is the      *)
(* field w.fault, and every statement after a raise is skipped.            *)
(***************************************************************************)
EXTENDS Integers, Sequences, FiniteSets, TLC

VARIABLES
    config,         \* Config.get()["sdrs"]: the keys that have an entry
    registry,       \* MappedSdrSources: key -> proxy, or NoProxy
    src,            \* the SdrSource objects built so far: proxy -> fields
    nextId,         \* the next proxy buildNewSource returns
    handlers,       \* ActiveSdrSources.handlers: key -> source of its handler, or NoProxy
    active,         \* ActiveSdrSources._layer: key -> proxy, or NoProxy
    profiles,       \* AvailableProfiles._layer: key -> name, or NoName
    subscriptions,  \* AvailableProfiles.subscriptions: key -> list of handles (by proxy)
    fault,          \* what the last operation raised to its caller, or "none"
    svcSources,     \* SdrService.sources: instance, or NoInstance
    svcActive,      \* SdrService.activeSources
    svcProfiles,    \* SdrService.availableProfiles
    built,          \* instances constructed so far, per class
    pc,             \* per thread: its position inside the operation it runs
    call,           \* per thread: the operation it called
    result,         \* per thread: the instance its accessor returned, or NoInstance
    creationLock,   \* ReportingEngine.creationLock: the thread holding it, or NoThread
    sharedInstance, \* ReportingEngine.sharedInstance: instance, or NoInstance
    engines,        \* ReportingEngine objects constructed so far
    reporters,      \* sharedInstance.reporters: the supported-mode set of each
    stops,          \* per reporter: how often its stop() was invoked
    spotLog         \* the calls of Reporter.spot made by the latest spot(), in order

viewVars == <<config, registry, src, nextId, handlers, active, profiles,
              subscriptions, fault>>
svcVars == <<svcSources, svcActive, svcProfiles, built, pc, call, result>>
repVars == <<creationLock, sharedInstance, engines, reporters, stops, spotLog>>
vars == <<config, registry, src, nextId, handlers, active, profiles,
          subscriptions, fault,
          svcSources, svcActive, svcProfiles, built, pc, call, result,
          creationLock, sharedInstance, engines, reporters, stops, spotLog>>

----------------------------------------------------------------------------
(* Bounds and value sets *)

MaxProxies == 2
NThreads == 2
MaxReporters == 2
MaxStopAlls == 2

Keys == {"a", "b"}
Names == {"Dev A", "Dev B"}
\* type tags: one per outcome of the feature oracle and of the driver import
Types == {"rtl_sdr", "sdrplay", "bogus", "airspy"}
Proxies == 1..MaxProxies
Threads == 1..NThreads

NoProxy == 0
NoInstance == 0
NoThread == 0
PropertyDeleted == -1
NoName == "-"
NoKey == "-"

\* the entries the store delivers: a new entry carries the first name (Rename
\* changes it later); name and enabled flag are read only by a proxy that gets
\* built, so the entries of the rejected types carry one value of each
Entries ==
    [type : {"rtl_sdr"}, name : {"Dev A"}, enabled : BOOLEAN]
    \cup [type : Types \ {"rtl_sdr"}, name : {"Dev A"}, enabled : {TRUE}]
DeletedEntry == [type |-> "PropertyDeleted", name |-> NoName, enabled |-> FALSE]

\* a change batch: a dict in iteration order, so no key twice
Batches ==
    {b \in UNION {[1..n -> [key : Keys, value : Entries \cup {DeletedEntry}]] :
                    n \in 1..Cardinality(Keys)} :
        \A i, j \in DOMAIN b : i # j => b[i].key # b[j].key}

RECURSIVE Remove(_, _)
\* list.remove(x): drops the first occurrence, ValueError swallowed by the caller
Remove(s, x) ==
    IF s = <<>> THEN <<>>
    ELSE IF Head(s) = x THEN Tail(s)
    ELSE <<Head(s)>> \o Remove(Tail(s), x)

Count(s, x) == Cardinality({i \in DOMAIN s : s[i] = x})

KeySet(f, none) == {k \in Keys : f[k] # none}

----------------------------------------------------------------------------
(* The world record *)

World ==
    [registry |-> registry, src |-> src, nextId |-> nextId,
     handlers |-> handlers, active |-> active, profiles |-> profiles,
     subscriptions |-> subscriptions, fault |-> "none"]

Raise(w, e) == IF w.fault = "none" THEN [w EXCEPT !.fault = e] ELSE w

NewSource ==
    [key |-> NoKey, name |-> NoName, enabled |-> FALSE, failed |-> FALSE,
     clients |-> <<>>, shutdowns |-> 0, subscribers |-> <<>>]

----------------------------------------------------------------------------
(* AvailableProfiles (ProfileCatalog) *)

\* PropertyLayer.__setitem__ on AvailableProfiles._layer; nothing is wired to it
ProfilesLayerSet(w, k, name) == [w EXCEPT !.profiles[k] = name]

\* PropertyLayer.__delitem__ on AvailableProfiles._layer: a mapping deletion
ProfilesLayerDel(w, k) ==
    IF w.profiles[k] = NoName THEN Raise(w, "KeyError")
    ELSE [w EXCEPT !.profiles[k] = NoName]

\* props.wireProperty("name", callback): a new handle on the proxy's props
wireProperty(w, k, p) == [w EXCEPT !.src[p].subscribers = Append(@, k)]

\* Subscription.cancel(): unwires the handle from the proxy's props
cancel(w, k, p) == [w EXCEPT !.src[p].subscribers = Remove(@, k)]

\* def handleSdrNameChange(self, s_id, source, name)
Profiles_handleSdrNameChange(w, k, p, name) == ProfilesLayerSet(w, k, name)

\* def _addSource(self, key, source): the list stored under key is overwritten
Profiles_addSource(w, k, p) ==
    LET w1 == ProfilesLayerSet(w, k, w.src[p].name)
        w2 == wireProperty(w1, k, p)
    IN  [w2 EXCEPT !.subscriptions[k] = <<p>>]

RECURSIVE Profiles_drain(_, _)
\* while self.subscriptions[key]: self.subscriptions[key].pop().cancel()
Profiles_drain(w, k) ==
    IF w.subscriptions[k] = <<>> THEN w
    ELSE LET s == w.subscriptions[k]
             w1 == [w EXCEPT !.subscriptions[k] = SubSeq(s, 1, Len(s) - 1)]
         IN  Profiles_drain(cancel(w1, k, s[Len(s)]), k)

\* def _removeSource(self, key)
Profiles_removeSource(w, k) ==
    LET w1 == ProfilesLayerDel(w, k)
    IN  IF w1.fault # "none" THEN w1 ELSE Profiles_drain(w1, k)

RECURSIVE Profiles_handleSdrDeviceChange(_, _)
\* def handleSdrDeviceChange(self, changes), wired to ActiveSdrSources
Profiles_handleSdrDeviceChange(w, changes) ==
    IF changes = <<>> \/ w.fault # "none" THEN w
    ELSE LET c == Head(changes)
             w1 == IF c.value = PropertyDeleted
                   THEN Profiles_removeSource(w, c.key)
                   ELSE Profiles_addSource(w, c.key, c.value)
         IN  Profiles_handleSdrDeviceChange(w1, Tail(changes))

----------------------------------------------------------------------------
(* ActiveSdrSources (HealthView) and SourceStateHandler *)

\* PropertyLayer.__setitem__ on ActiveSdrSources._layer: an unchanged value is
\* no change; a change is delivered to the wired AvailableProfiles
ActiveLayerSet(w, k, p) ==
    IF w.active[k] = p THEN w
    ELSE Profiles_handleSdrDeviceChange([w EXCEPT !.active[k] = p],
                                        <<[key |-> k, value |-> p]>>)

\* PropertyLayer.__delitem__ on ActiveSdrSources._layer: a mapping deletion,
\* which raises for a key that is not there
ActiveLayerDel(w, k) ==
    IF w.active[k] = NoProxy THEN Raise(w, "KeyError")
    ELSE Profiles_handleSdrDeviceChange([w EXCEPT !.active[k] = NoProxy],
                                        <<[key |-> k, value |-> PropertyDeleted]>>)

\* SourceStateHandler(pm, key, source) is the pair (k, p); pm is the layer above
onFail(w, k, p) == ActiveLayerDel(w, k)
onDisable(w, k, p) == ActiveLayerDel(w, k)
\* onEnable that inserts nothing
onEnable_ignored(w, k, p) == w
onEnable(w, k, p) == ActiveLayerSet(w, k, p)
onShutdown(w, k, p) == ActiveLayerDel(w, k)

\* SdrSource.addClient / removeClient
addClient(w, p, k) == [w EXCEPT !.src[p].clients = Append(@, k)]
removeClient(w, p, k) == [w EXCEPT !.src[p].clients = Remove(@, k)]

\* def selfDestruct(self)
selfDestruct(w, k, p) == removeClient(w, p, k)

\* def isAvailable(self, source)
isAvailable(w, p) == w.src[p].enabled /\ ~w.src[p].failed

\* def _addSource(self, key, source): the handler stored under key is overwritten
Active_addSource(w, k, p) ==
    LET w1 == IF isAvailable(w, p) THEN ActiveLayerSet(w, k, p) ELSE w
    IN  IF w1.fault # "none" THEN w1
        ELSE addClient([w1 EXCEPT !.handlers[k] = p], p, k)

\* _removeSource without "self.handlers[key].selfDestruct()"
Active_removeSource_keepsHandler(w, k) ==
    IF w.handlers[k] = NoProxy THEN Raise(w, "KeyError")
    ELSE LET w2 == [w EXCEPT !.handlers[k] = NoProxy]
         IN  IF w2.active[k] # NoProxy THEN ActiveLayerDel(w2, k) ELSE w2

\* def _removeSource(self, key)
Active_removeSource(w, k) ==
    IF w.handlers[k] = NoProxy THEN Raise(w, "KeyError")
    ELSE LET w1 == selfDestruct(w, k, w.handlers[k])
             w2 == [w1 EXCEPT !.handlers[k] = NoProxy]
         IN  IF w2.active[k] # NoProxy THEN ActiveLayerDel(w2, k) ELSE w2

RECURSIVE Active_handleSdrDeviceChange(_, _)
\* def handleSdrDeviceChange(self, changes), wired to MappedSdrSources
Active_handleSdrDeviceChange(w, changes) ==
    IF changes = <<>> \/ w.fault # "none" THEN w
    ELSE LET c == Head(changes)
             w1 == IF c.value = PropertyDeleted
                   THEN Active_removeSource(w, c.key)
                   ELSE Active_addSource(w, c.key, c.value)
         IN  Active_handleSdrDeviceChange(w1, Tail(changes))

----------------------------------------------------------------------------
(* SdrSource: the device proxy *)

Callback(w, k, p, ev) ==
    CASE ev = "fail" -> onFail(w, k, p)
      [] ev = "disable" -> onDisable(w, k, p)
      [] ev = "enable" -> onEnable(w, k, p)
      [] ev = "shutdown" -> onShutdown(w, k, p)

RECURSIVE Notify(_, _, _, _)
\* for c in self.clients.copy(): c.onX() -- a raising client ends the loop
Notify(w, p, cs, ev) ==
    IF cs = <<>> \/ w.fault # "none" THEN w
    ELSE Notify(Callback(w, Head(cs), p, ev), p, Tail(cs), ev)

\* SdrSource.shutdown(): full teardown, then onShutdown to the attached listeners
shutdown(w, p) ==
    Notify([w EXCEPT !.src[p].shutdowns = @ + 1], p, w.src[p].clients, "shutdown")

\* SdrSource.fail()
fail(w, p) ==
    Notify([w EXCEPT !.src[p].failed = TRUE], p, w.src[p].clients, "fail")

\* the proxy's enabled flag changes: onEnable / onDisable to the listeners
setEnabled(w, p, on) ==
    Notify([w EXCEPT !.src[p].enabled = on], p, w.src[p].clients,
           IF on THEN "enable" ELSE "disable")

RECURSIVE FireName(_, _, _, _)
\* the proxy's "name" property changes: every handle wired to it is called
FireName(w, p, subs, name) ==
    IF subs = <<>> \/ w.fault # "none" THEN w
    ELSE FireName(Profiles_handleSdrNameChange(w, Head(subs), p, name),
                  p, Tail(subs), name)

setName(w, p, name) ==
    FireName([w EXCEPT !.src[p].name = name], p, w.src[p].subscribers, name)

----------------------------------------------------------------------------
(* MappedSdrSources (DeviceRegistry) *)

\* FeatureDetector.is_available(type); "unknown" is UnknownFeatureException
is_available(type) ==
    CASE type \in {"rtl_sdr", "airspy"} -> "yes"
      [] type = "sdrplay" -> "no"
      [] OTHER -> "unknown"

\* _sdrTypeAvailable whose except branch lets the unknown type pass
sdrTypeAvailable_unknownPasses(value) == is_available(value.type) # "no"

\* def _sdrTypeAvailable(self, value)
sdrTypeAvailable(value) ==
    LET r == is_available(value.type)
    IN  IF r = "unknown" THEN FALSE
        ELSE IF r # "yes" THEN FALSE
        ELSE TRUE

\* def isDeviceValid(self, device)
isDeviceValid(device) == sdrTypeAvailable(device)

\* whether importing or constructing the driver of a type raises on this host
DriverRaises(type) == type = "airspy"

\* def buildNewSource(self, id, props): import of the driver module and
\* construction; the new proxy is w.nextId
buildNewSource(w, id, props) ==
    IF DriverRaises(props.type) THEN Raise(w, "ImportError")
    ELSE IF w.nextId > MaxProxies THEN Raise(w, "OutOfProxies")
    ELSE [w EXCEPT !.src[w.nextId] =
                        [NewSource EXCEPT !.key = id, !.name = props.name,
                                          !.enabled = props.enabled],
                   !.nextId = @ + 1]

\* def _removeSource(self, key, source)
Mapped_removeSource(w, k, source) == shutdown(w, source)

\* PropertyDelegator.__setitem__: the registry's layer, wired to ActiveSdrSources
RegistryLayerSet(w, k, p) ==
    IF w.registry[k] = p THEN w
    ELSE Active_handleSdrDeviceChange([w EXCEPT !.registry[k] = p],
                                      <<[key |-> k, value |-> p]>>)

\* PropertyDelegator.__delitem__
RegistryLayerDel(w, k) ==
    IF w.registry[k] = NoProxy THEN Raise(w, "KeyError")
    ELSE Active_handleSdrDeviceChange([w EXCEPT !.registry[k] = NoProxy],
                                      <<[key |-> k, value |-> PropertyDeleted]>>)

\* def __setitem__(self, key, value)
Mapped_setitem(w, k, value) ==
    LET source == w.registry[k]
    IN  IF source = value THEN w
        ELSE LET w1 == RegistryLayerSet(w, k, value)
             IN  IF w1.fault = "none" /\ source # NoProxy
                 THEN Mapped_removeSource(w1, k, source)
                 ELSE w1

\* __delitem__ without the call of _removeSource
Mapped_delitem_noShutdown(w, k) == RegistryLayerDel(w, k)

\* def __delitem__(self, key)
Mapped_delitem(w, k) ==
    LET source == w.registry[k]
        w1 == RegistryLayerDel(w, k)
    IN  IF w1.fault = "none" /\ source # NoProxy
        THEN Mapped_removeSource(w1, k, source)
        ELSE w1

\* def handleDeviceUpdate(self, key, value, *args)
handleDeviceUpdate(w, k, value) ==
    IF w.registry[k] = NoProxy /\ isDeviceValid(value)
    THEN LET w1 == buildNewSource(w, k, value)
         IN  IF w1.fault # "none" THEN w1
             ELSE Mapped_setitem(w1, k, w1.nextId - 1)
    ELSE IF w.registry[k] # NoProxy /\ ~isDeviceValid(value)
    THEN Mapped_delitem(w, k)
    ELSE w

\* def _addSource(self, key, value)
Mapped_addSource(w, k, value) == handleDeviceUpdate(w, k, value)

RECURSIVE Mapped_handleSdrDeviceChange(_, _, _)
\* def handleSdrDeviceChange(self, changes): i is the loop's position
Mapped_handleSdrDeviceChange(w, changes, i) ==
    IF i > Len(changes) \/ w.fault # "none" THEN w
    ELSE LET c == changes[i]
             w1 == IF c.value = DeletedEntry
                   THEN IF w.registry[c.key] # NoProxy
                        THEN Mapped_delitem(w, c.key)
                        ELSE w
                   ELSE IF w.registry[c.key] = NoProxy
                        THEN Mapped_addSource(w, c.key, c.value)
                        ELSE w
         IN  Mapped_handleSdrDeviceChange(w1, changes, i + 1)

----------------------------------------------------------------------------
(* The state after SdrService has built the three views over an empty store *)

\* no ReportingEngine exists yet
InitReporting ==
    /\ creationLock = NoThread
    /\ sharedInstance = NoInstance
    /\ engines = 0
    /\ reporters = <<>>
    /\ stops = [i \in 1..MaxReporters |-> 0]
    /\ spotLog = <<>>

InitViews ==
    /\ config = {}
    /\ registry = [k \in Keys |-> NoProxy]
    /\ src = [p \in Proxies |-> NewSource]
    /\ nextId = 1
    /\ handlers = [k \in Keys |-> NoProxy]
    /\ active = [k \in Keys |-> NoProxy]
    /\ profiles = [k \in Keys |-> NoName]
    /\ subscriptions = [k \in Keys |-> <<>>]
    /\ fault = "none"

Init ==
    /\ InitViews
    /\ InitReporting
    /\ svcSources = 1
    /\ svcActive = 1
    /\ svcProfiles = 1
    /\ built = [c \in {"sources", "active", "profiles"} |-> 1]
    /\ pc = [t \in Threads |-> "idle"]
    /\ call = [t \in Threads |-> "none"]
    /\ result = [t \in Threads |-> NoInstance]

\* an operation took the objects from World to w
Becomes(w) ==
    /\ w.fault # "OutOfProxies"
    /\ registry' = w.registry
    /\ src' = w.src
    /\ nextId' = w.nextId
    /\ handlers' = w.handlers
    /\ active' = w.active
    /\ profiles' = w.profiles
    /\ subscriptions' = w.subscriptions
    /\ fault' = w.fault
    /\ UNCHANGED svcVars
    /\ UNCHANGED repVars

Installed(p) == p < nextId /\ registry[src[p].key] = p

Upserted(batch) == {batch[i].key : i \in {j \in DOMAIN batch : batch[j].value # DeletedEntry}}
Removed(batch) == {batch[i].key : i \in {j \in DOMAIN batch : batch[j].value = DeletedEntry}}

\* The configuration store applies a batch and notifies the registry.
ConfigAfter(batch) == (config \cup Upserted(batch)) \ Removed(batch)
AfterBatch(batch) == Mapped_handleSdrDeviceChange(World, batch, 1)

ConfigChange(batch) ==
    /\ Removed(batch) \subseteq config
    /\ config' = ConfigAfter(batch)
    /\ Becomes(AfterBatch(batch))

\* registry[k] = a proxy newly built for props (line 30 without its guard)
SetItemNew(k, props) ==
    LET w1 == buildNewSource(World, k, props)
    IN  /\ isDeviceValid(props)
        /\ w1.fault = "none"
        /\ Becomes(Mapped_setitem(w1, k, w1.nextId - 1))
        /\ UNCHANGED config

\* registry[k] = the proxy it already holds
SetItemSame(k) ==
    /\ registry[k] # NoProxy
    /\ Becomes(Mapped_setitem(World, k, registry[k]))
    /\ UNCHANGED config

\* del registry[k]
DelItem(k) ==
    /\ Becomes(Mapped_delitem(World, k))
    /\ UNCHANGED config

\* Lifecycle events come from the running device: shutdown() tears the device
\* down, so only a proxy the registry holds fails or is enabled or disabled.
\* An installed device fails.
Fail(p) ==
    /\ Installed(p) /\ ~src[p].failed
    /\ Becomes(fail(World, p))
    /\ UNCHANGED config

\* An installed device is disabled.
Disable(p) ==
    /\ Installed(p) /\ src[p].enabled
    /\ Becomes(setEnabled(World, p, FALSE))
    /\ UNCHANGED config

\* An installed device is enabled.
Enable(p) ==
    /\ Installed(p) /\ ~src[p].enabled
    /\ Becomes(setEnabled(World, p, TRUE))
    /\ UNCHANGED config

\* The "name" property of a proxy's props changes.  The props outlive the
\* registry entry: a proxy that was replaced or deleted still notifies the
\* handles wired to its name.
Rename(p, name) ==
    /\ p < nextId /\ src[p].name # name
    /\ Becomes(setName(World, p, name))
    /\ UNCHANGED config

Next ==
    \/ \E batch \in Batches : ConfigChange(batch)
    \/ \E k \in Keys, props \in Entries : SetItemNew(k, props)
    \/ \E k \in Keys : SetItemSame(k)
    \/ \E k \in Keys : DelItem(k)
    \/ \E p \in Proxies : Fail(p)
    \/ \E p \in Proxies : Disable(p)
    \/ \E p \in Proxies : Enable(p)
    \/ \E p \in Proxies, name \in Names : Rename(p, name)

Spec == Init /\ [][Next]_vars

----------------------------------------------------------------------------
(* SdrService: the lazy accessors, called from several threads.  A thread is
   preempted between the test "is None", the construction with its assignment
   to the class attribute, and the read of the attribute it returns. *)

Classes == {"sources", "active", "profiles"}
Accessors == {"getAllSources", "getActiveSources", "getAvailableProfiles"}

InitSvc ==
    /\ InitViews
    /\ InitReporting
    /\ svcSources = NoInstance
    /\ svcActive = NoInstance
    /\ svcProfiles = NoInstance
    /\ built = [c \in Classes |-> 0]
    /\ pc = [t \in Threads |-> "idle"]
    /\ call = [t \in Threads |-> "none"]
    /\ result = [t \in Threads |-> NoInstance]

Goto(t, label) == pc' = [pc EXCEPT ![t] = label]

\* a thread calls one of the accessors
Call(t, c) ==
    /\ pc[t] = "idle"
    /\ call' = [call EXCEPT ![t] = c]
    /\ Goto(t, CASE c = "getAllSources" -> "S_check"
                 [] c = "getActiveSources" -> "A_check"
                 [] c = "getAvailableProfiles" -> "P_check")
    /\ UNCHANGED <<svcSources, svcActive, svcProfiles, built, result>>

\* getAllSources: if SdrService.sources is None
getAllSources_check(t) ==
    /\ pc[t] = "S_check"
    /\ Goto(t, IF svcSources = NoInstance THEN "S_build" ELSE "S_return")
    /\ UNCHANGED <<svcSources, svcActive, svcProfiles, built, call, result>>

\* getAllSources: SdrService.sources = MappedSdrSources(Config.get()["sdrs"])
getAllSources_build(t) ==
    /\ pc[t] = "S_build"
    /\ built' = [built EXCEPT !["sources"] = @ + 1]
    /\ svcSources' = built["sources"] + 1
    /\ Goto(t, "S_return")
    /\ UNCHANGED <<svcActive, svcProfiles, call, result>>

\* getAllSources: return SdrService.sources, to the caller or to getActiveSources
getAllSources_return(t) ==
    /\ pc[t] = "S_return"
    /\ IF call[t] = "getAllSources"
       THEN result' = [result EXCEPT ![t] = svcSources] /\ Goto(t, "done")
       ELSE UNCHANGED result /\ Goto(t, "A_build")
    /\ UNCHANGED <<svcSources, svcActive, svcProfiles, built, call>>

\* getActiveSources: if SdrService.activeSources is None
getActiveSources_check(t) ==
    /\ pc[t] = "A_check"
    /\ Goto(t, IF svcActive = NoInstance THEN "S_check" ELSE "A_return")
    /\ UNCHANGED <<svcSources, svcActive, svcProfiles, built, call, result>>

\* getActiveSources: SdrService.activeSources = ActiveSdrSources(...)
getActiveSources_build(t) ==
    /\ pc[t] = "A_build"
    /\ built' = [built EXCEPT !["active"] = @ + 1]
    /\ svcActive' = built["active"] + 1
    /\ Goto(t, "A_return")
    /\ UNCHANGED <<svcSources, svcProfiles, call, result>>

\* getActiveSources: return SdrService.activeSources
getActiveSources_return(t) ==
    /\ pc[t] = "A_return"
    /\ IF call[t] = "getActiveSources"
       THEN result' = [result EXCEPT ![t] = svcActive] /\ Goto(t, "done")
       ELSE UNCHANGED result /\ Goto(t, "P_build")
    /\ UNCHANGED <<svcSources, svcActive, svcProfiles, built, call>>

\* getAvailableProfiles: if SdrService.availableProfiles is None
getAvailableProfiles_check(t) ==
    /\ pc[t] = "P_check"
    /\ Goto(t, IF svcProfiles = NoInstance THEN "A_check" ELSE "P_return")
    /\ UNCHANGED <<svcSources, svcActive, svcProfiles, built, call, result>>

\* getAvailableProfiles: SdrService.availableProfiles = AvailableProfiles(...)
getAvailableProfiles_build(t) ==
    /\ pc[t] = "P_build"
    /\ built' = [built EXCEPT !["profiles"] = @ + 1]
    /\ svcProfiles' = built["profiles"] + 1
    /\ Goto(t, "P_return")
    /\ UNCHANGED <<svcSources, svcActive, call, result>>

\* getAvailableProfiles: return SdrService.availableProfiles
getAvailableProfiles_return(t) ==
    /\ pc[t] = "P_return"
    /\ result' = [result EXCEPT ![t] = svcProfiles]
    /\ Goto(t, "done")
    /\ UNCHANGED <<svcSources, svcActive, svcProfiles, built, call>>

NextSvc ==
    \/ \E t \in Threads, c \in Accessors : Call(t, c) /\ UNCHANGED <<viewVars, repVars>>
    \/ \E t \in Threads : getAllSources_check(t) /\ UNCHANGED <<viewVars, repVars>>
    \/ \E t \in Threads : getAllSources_build(t) /\ UNCHANGED <<viewVars, repVars>>
    \/ \E t \in Threads : getAllSources_return(t) /\ UNCHANGED <<viewVars, repVars>>
    \/ \E t \in Threads : getActiveSources_check(t) /\ UNCHANGED <<viewVars, repVars>>
    \/ \E t \in Threads : getActiveSources_build(t) /\ UNCHANGED <<viewVars, repVars>>
    \/ \E t \in Threads : getActiveSources_return(t) /\ UNCHANGED <<viewVars, repVars>>
    \/ \E t \in Threads : getAvailableProfiles_check(t) /\ UNCHANGED <<viewVars, repVars>>
    \/ \E t \in Threads : getAvailableProfiles_build(t) /\ UNCHANGED <<viewVars, repVars>>
    \/ \E t \in Threads : getAvailableProfiles_return(t) /\ UNCHANGED <<viewVars, repVars>>

SpecSvc == InitSvc /\ [][NextSvc]_vars

----------------------------------------------------------------------------
(* ReportingEngine (owrx/reporting.py): the singleton behind creationLock, its
   ordered list of reporters, stopAll and spot.  A reporter is its set of
   supported modes; a spot is a record that carries a "mode" field or lacks it. *)

Modes == {"FT8", "WSPR", "JT65"}
Spots == [mode : Modes, callsign : {"DL1ABC"}] \cup [callsign : {"DL1ABC"}]

\* the reporters there are, each by what its getSupportedModes() returns
ReporterKinds == {{"FT8", "FT4"}, {"WSPR"}}

\* the lists self.reporters can hold
ReporterLists == UNION {[1..n -> ReporterKinds] : n \in 0..MaxReporters}

\* Reporter.getSupportedModes()
getSupportedModes(r) == r

\* the test of spot that lets every reporter pass
supports_any(r, spot) == TRUE

\* spot["mode"] in r.getSupportedModes()
supports(r, spot) == spot.mode \in getSupportedModes(r)

RECURSIVE ReportingEngine_spot(_, _, _, _)
\* def spot(self, spot): the loop from reporter i on; spot["mode"] of a record
\* without the field raises KeyError
ReportingEngine_spot(rs, i, spot, log) ==
    IF i > Len(rs) THEN [log |-> log, fault |-> "none"]
    ELSE IF "mode" \notin DOMAIN spot THEN [log |-> log, fault |-> "KeyError"]
    ELSE IF supports(rs[i], spot)
    THEN ReportingEngine_spot(rs, i + 1, spot,
                              Append(log, [reporter |-> i, spot |-> spot]))
    ELSE ReportingEngine_spot(rs, i + 1, spot, log)

\* def stop(self): for r in self.reporters: r.stop()
ReportingEngine_stop(rs, st) ==
    [i \in DOMAIN st |-> IF i \in DOMAIN rs THEN st[i] + 1 ELSE st[i]]

\* acquiring a lock that excludes nobody
LockAlwaysFree(t) == TRUE

\* with ReportingEngine.creationLock: the lock can be taken
LockFree(t) == creationLock = NoThread

Acquire(t) == LockFree(t) /\ creationLock' = t
Release(t) == creationLock' = NoThread

InitRep ==
    /\ InitViews
    /\ InitReporting
    /\ svcSources = 1
    /\ svcActive = 1
    /\ svcProfiles = 1
    /\ built = [c \in {"sources", "active", "profiles"} |-> 1]
    /\ pc = [t \in Threads |-> "idle"]
    /\ call = [t \in Threads |-> "none"]
    /\ result = [t \in Threads |-> NoInstance]

svcObjects == <<svcSources, svcActive, svcProfiles, built>>
registryVars == <<config, registry, src, nextId, handlers, active, profiles,
                  subscriptions>>

\* the calls of stopAll that stopped the reporters or are still under way
StopAlls ==
    (IF reporters = <<>> THEN 0 ELSE stops[1])
    + Cardinality({t \in Threads : call[t] = "stopAll" /\ pc[t] # "done"})

\* a thread calls ReportingEngine.getSharedInstance() or ReportingEngine.stopAll()
RepCall(t, c) ==
    /\ pc[t] \in {"idle", "done"}
    /\ c = "stopAll" => StopAlls < MaxStopAlls
    /\ call' = [call EXCEPT ![t] = c]
    /\ Goto(t, IF c = "getSharedInstance" THEN "G_lock" ELSE "T_lock")
    /\ UNCHANGED <<result, svcObjects, repVars, viewVars>>

\* getSharedInstance: with ReportingEngine.creationLock
getSharedInstance_lock(t) ==
    /\ pc[t] = "G_lock"
    /\ Acquire(t)
    /\ Goto(t, "G_check")
    /\ UNCHANGED <<call, result, svcObjects, viewVars>>
    /\ UNCHANGED <<sharedInstance, engines, reporters, stops, spotLog>>

\* getSharedInstance: if ReportingEngine.sharedInstance is None
getSharedInstance_check(t) ==
    /\ pc[t] = "G_check"
    /\ Goto(t, IF sharedInstance = NoInstance THEN "G_build" ELSE "G_return")
    /\ UNCHANGED <<call, result, svcObjects, repVars, viewVars>>

\* getSharedInstance: ReportingEngine.sharedInstance = ReportingEngine();
\* __init__ fills self.reporters as the configuration says
getSharedInstance_build(t) ==
    /\ pc[t] = "G_build"
    /\ \E rs \in ReporterLists : reporters' = rs
    /\ engines' = engines + 1
    /\ sharedInstance' = engines + 1
    /\ Goto(t, "G_return")
    /\ UNCHANGED <<call, result, svcObjects, viewVars>>
    /\ UNCHANGED <<creationLock, stops, spotLog>>

\* getSharedInstance: return ReportingEngine.sharedInstance, leaving the lock
getSharedInstance_return(t) ==
    /\ pc[t] = "G_return"
    /\ result' = [result EXCEPT ![t] = sharedInstance]
    /\ Release(t)
    /\ Goto(t, "done")
    /\ UNCHANGED <<call, svcObjects, viewVars>>
    /\ UNCHANGED <<sharedInstance, engines, reporters, stops, spotLog>>

\* stopAll: with ReportingEngine.creationLock
stopAll_lock(t) ==
    /\ pc[t] = "T_lock"
    /\ Acquire(t)
    /\ Goto(t, "T_check")
    /\ UNCHANGED <<call, result, svcObjects, viewVars>>
    /\ UNCHANGED <<sharedInstance, engines, reporters, stops, spotLog>>

\* stopAll: if ReportingEngine.sharedInstance is not None; else leave the lock
stopAll_check(t) ==
    /\ pc[t] = "T_check"
    /\ IF sharedInstance # NoInstance
       THEN Goto(t, "T_stop") /\ UNCHANGED creationLock
       ELSE Goto(t, "done") /\ Release(t)
    /\ UNCHANGED <<call, result, svcObjects, viewVars>>
    /\ UNCHANGED <<sharedInstance, engines, reporters, stops, spotLog>>

\* stopAll: ReportingEngine.sharedInstance.stop(), leaving the lock
stopAll_stop(t) ==
    /\ pc[t] = "T_stop"
    /\ stops' = ReportingEngine_stop(reporters, stops)
    /\ Release(t)
    /\ Goto(t, "done")
    /\ UNCHANGED <<call, result, svcObjects, viewVars>>
    /\ UNCHANGED <<sharedInstance, engines, reporters, spotLog>>

\* a thread that got the engine calls spot(spot) on it
Spot(t, spot) ==
    /\ pc[t] = "done"
    /\ result[t] # NoInstance
    /\ LET r == ReportingEngine_spot(reporters, 1, spot, <<>>)
       IN  spotLog' = r.log /\ fault' = r.fault
    /\ UNCHANGED <<svcVars, registryVars>>
    /\ UNCHANGED <<creationLock, sharedInstance, engines, reporters, stops>>

NextRep ==
    \/ \E t \in Threads, c \in {"getSharedInstance", "stopAll"} : RepCall(t, c)
    \/ \E t \in Threads : getSharedInstance_lock(t)
    \/ \E t \in Threads : getSharedInstance_check(t)
    \/ \E t \in Threads : getSharedInstance_build(t)
    \/ \E t \in Threads : getSharedInstance_return(t)
    \/ \E t \in Threads : stopAll_lock(t)
    \/ \E t \in Threads : stopAll_check(t)
    \/ \E t \in Threads : stopAll_stop(t)
    \/ \E t \in Threads, spot \in Spots : Spot(t, spot)

SpecRep == InitRep /\ [][NextRep]_vars

----------------------------------------------------------------------------
(* Claims *)

ActiveKeys == KeySet(active, NoProxy)
ProfileKeys == KeySet(profiles, NoName)
RegistryKeys == KeySet(registry, NoProxy)
AvailableKeys ==
    {k \in RegistryKeys : src[registry[k]].enabled /\ ~src[registry[k]].failed}

\* C1: at every settled point the key set of ActiveSdrSources is exactly the
\* set of registry keys whose device is enabled and not failed.
C1_HealthViewExact == ActiveKeys = AvailableKeys

\* C3: at every settled point the key set of AvailableProfiles equals the key
\* set of ActiveSdrSources.
C3_ProfilesMirrorActive == ProfileKeys = ActiveKeys

\* C4: every attached SourceStateHandler is the one recorded for its key in
\* ActiveSdrSources.handlers, and a recorded handler is attached exactly once.
C4_HandlersTracked ==
    /\ \A p \in Proxies, k \in Keys :
          Count(src[p].clients, k) > 0 => handlers[k] = p
    /\ \A k \in Keys :
          handlers[k] # NoProxy => Count(src[handlers[k]].clients, k) = 1

\* C5: a key that is not in AvailableProfiles has no uncancelled rename
\* subscription created for it.
C5_NoLiveSubscription ==
    \A k \in Keys :
        k \notin ProfileKeys => \A p \in Proxies : Count(src[p].subscribers, k) = 0

\* C6: a proxy taken out of the registry (deleted or replaced) has had its
\* shutdown invoked exactly once, and an installed proxy never.
C6_ShutdownOnce ==
    \A p \in Proxies :
        p < nextId => src[p].shutdowns = (IF Installed(p) THEN 0 ELSE 1)

\* a proxy was replaced by another one under its key, and was shut down
C6_Witness ==
    \E p \in Proxies :
        /\ p < nextId /\ ~Installed(p) /\ src[p].shutdowns = 1
        /\ registry[src[p].key] # NoProxy

\* C7: a fail, disable or shutdown callback deletes the key from the overlay
\* of ActiveSdrSources if present and raises nothing if absent; an enable
\* callback inserts the key mapped to the device.
C7_CallbacksFaultFree ==
    [][/\ \A p \in Proxies :
            /\ (Fail(p) \/ Disable(p)) =>
                    fault' = "none" /\ src[p].key \notin ActiveKeys'
            /\ Enable(p) => fault' = "none" /\ active'[src[p].key] = p
       /\ \A k \in Keys, props \in Entries : SetItemNew(k, props) => fault' = "none"
      ]_vars

\* what the registry's loop meets at change i of a batch, from the state before
IsUpsert(batch, i) == batch[i].value # DeletedEntry
Accepted(batch, i) == IsUpsert(batch, i) /\ is_available(batch[i].value.type) = "yes"
Rejected(batch, i) == IsUpsert(batch, i) /\ is_available(batch[i].value.type) # "yes"
Raising(batch, i) ==
    /\ Accepted(batch, i)
    /\ registry[batch[i].key] = NoProxy
    /\ DriverRaises(batch[i].value.type)
Reached(batch, i) == \A j \in 1..(i - 1) : ~Raising(batch, j)

\* the batches the store can deliver in this state
Deliverable ==
    {batch \in Batches :
        Removed(batch) \subseteq config /\ AfterBatch(batch).fault # "OutOfProxies"}

\* change i has been applied in w: a deleted key is out of the registry, an
\* upserted key is in it exactly when it was before or its type is available
AppliedTo(w, batch, i) ==
    LET k == batch[i].key
    IN  IF IsUpsert(batch, i)
        THEN (w.registry[k] # NoProxy) <=> (registry[k] # NoProxy \/ Accepted(batch, i))
        ELSE w.registry[k] = NoProxy

\* the objects after a step
NextWorld ==
    [registry |-> registry', src |-> src', nextId |-> nextId',
     handlers |-> handlers', active |-> active', profiles |-> profiles',
     subscriptions |-> subscriptions', fault |-> fault']

C8_RaiseIsolated ==
    [][\A batch \in Batches :
          (ConfigChange(batch) /\ \E j \in DOMAIN batch : Raising(batch, j)) =>
              \A i \in DOMAIN batch :
                  ~Raising(batch, i) =>
                      /\ AppliedTo(NextWorld, batch, i)
                      /\ handlers'[batch[i].key] = registry'[batch[i].key]
      ]_vars

\* C9: an upsert whose type is unknown or unavailable creates no proxy for its
\* key, raises nothing, and leaves the key in none of the three views.
C9_RejectedInNoView ==
    [][\A batch \in Batches : ConfigChange(batch) =>
          \A i \in DOMAIN batch :
              Rejected(batch, i) =>
                  LET k == batch[i].key
                  IN  /\ k \notin RegistryKeys'
                      /\ k \notin ActiveKeys'
                      /\ k \notin ProfileKeys'
                      /\ \A p \in Proxies :
                            (nextId <= p /\ p < nextId') => src'[p].key # k
                      /\ fault' # "none" => \E j \in DOMAIN batch : Raising(batch, j)
      ]_vars

\* C10: concurrent first-time calls to the SdrService accessors construct one
\* instance of each class, and all callers of an accessor get the same one.
C10_OneInstanceEach ==
    /\ \A c \in Classes : built[c] <= 1
    /\ \A t1, t2 \in Threads :
          (pc[t1] = "done" /\ pc[t2] = "done" /\ call[t1] = call[t2])
              => result[t1] = result[t2]

----------------------------------------------------------------------------
(* Claims about ReportingEngine, under SpecRep *)

\* C11: concurrent first-time calls of getSharedInstance, interleaved with
\* stopAll, construct exactly one ReportingEngine, and every caller of
\* getSharedInstance receives that instance.
C11_OneSharedInstance ==
    /\ engines <= 1
    /\ \A t \in Threads :
          (pc[t] = "done" /\ call[t] = "getSharedInstance") =>
              (result[t] = 1 /\ result[t] = sharedInstance)

\* two threads have got the engine, and a stopAll ran on it in between
C11_Witness ==
    \E t1, t2 \in Threads :
        /\ t1 # t2
        /\ pc[t1] = "done" /\ call[t1] = "getSharedInstance" /\ result[t1] = 1
        /\ pc[t2] = "done" /\ call[t2] = "getSharedInstance" /\ result[t2] = 1
        /\ Len(reporters) > 0 /\ stops[1] > 0

\* the reporters whose supported-mode set contains the spot's mode, ascending
Supporting(spot) == {i \in DOMAIN reporters : spot.mode \in reporters[i]}
Ascending(S) ==
    CHOOSE s \in [1..Cardinality(S) -> S] :
        \A i, j \in 1..Cardinality(S) : i < j => s[i] < s[j]
Deliveries(spot) ==
    [n \in 1..Cardinality(Supporting(spot)) |->
        [reporter |-> Ascending(Supporting(spot))[n], spot |-> spot]]

\* C12: spot delivers an event carrying mode M exactly once to each reporter
\* whose supported-mode set contains M, in list order, and to no other.
C12_SpotReachesSupporters ==
    [][\A t \in Threads, spot \in Spots :
          (Spot(t, spot) /\ "mode" \in DOMAIN spot) =>
              spotLog' = Deliveries(spot)
      ]_vars

\* of two reporters, the second got an FT8 spot that the first does not support
C12_Witness ==
    /\ Len(reporters) = 2
    /\ "FT8" \notin reporters[1] /\ "FT8" \in reporters[2]
    /\ \E n \in DOMAIN spotLog :
          spotLog[n].reporter = 2 /\ spotLog[n].spot.mode = "FT8"

\* C13: a spot without a mode field yields a validation error outcome, not a
\* missing-key fault, and no reporter receives it.
C13_MissingModeValidated ==
    [][\A t \in Threads, spot \in Spots :
          (Spot(t, spot) /\ "mode" \notin DOMAIN spot) =>
              (fault' = "ValidationError" /\ spotLog' = <<>>)
      ]_vars

\* C14: once stopAll has run after the engine exists, every registered
\* reporter's stop has been invoked exactly once; stopAll without an engine
\* constructs none and stops nothing.
C14_StoppedExactlyOnce ==
    /\ \A i \in DOMAIN reporters :
          /\ stops[i] <= 1
          /\ (\E t \in Threads : /\ pc[t] = "done" /\ call[t] = "stopAll"
                                 /\ result[t] # NoInstance) => stops[i] = 1
    /\ engines = 0 => \A i \in DOMAIN stops : stops[i] = 0
    /\ \A t \in Threads :
          (pc[t] = "done" /\ call[t] = "stopAll" /\ result[t] = NoInstance
           /\ sharedInstance = NoInstance) => engines = 0

----------------------------------------------------------------------------
(* Further claims about the registry and the views, under Spec *)

\* C15: a batch's upsert for a key already in the registry, with an entry
\* that is still valid, replaces the proxy by one newly built for the entry;
\* an upsert for an absent key creates one.
C15_UpsertReplaces ==
    [][\A batch \in Batches : ConfigChange(batch) =>
          \A i \in DOMAIN batch :
              (Accepted(batch, i) /\ Reached(batch, i) /\ ~Raising(batch, i)) =>
                  LET k == batch[i].key
                  IN  /\ registry'[k] # NoProxy
                      /\ nextId <= registry'[k]
                      /\ src'[registry'[k]].key = k
                      /\ src'[registry'[k]].enabled = batch[i].value.enabled
      ]_vars

\* C16: with the device of key k enabled, healthy and in both views, its fail
\* callback takes k out of both views and a following enable callback puts
\* the views, the handlers and the subscriptions back as they were, with
\* exactly one rename subscription for k.
C16_FailEnableRoundTrip ==
    \A p \in Proxies :
        LET k == src[p].key
            w1 == fail(World, p)
            w2 == setEnabled(w1, p, TRUE)
        IN  (Installed(p) /\ isAvailable(World, p) /\ active[k] = p
                /\ profiles[k] = src[p].name) =>
              /\ w1.fault = "none"
              /\ w1.active = [active EXCEPT ![k] = NoProxy]
              /\ w1.profiles = [profiles EXCEPT ![k] = NoName]
              /\ Count(w1.src[p].subscribers, k) = 0
              /\ w2.fault = "none"
              /\ w2.active = active
              /\ w2.profiles = profiles
              /\ w2.subscriptions = subscriptions
              /\ w2.handlers = handlers
              /\ w2.src[p].clients = src[p].clients
              /\ Count(w2.src[p].subscribers, k) = 1

\* a device that failed is back in both views after its enable callback
C16_Witness ==
    \E p \in Proxies :
        /\ Installed(p) /\ src[p].failed /\ src[p].enabled
        /\ active[src[p].key] = p
        /\ profiles[src[p].key] = src[p].name
        /\ Count(src[p].subscribers, src[p].key) = 1

\* C18: after registry[k] is replaced by a different proxy that is enabled and
\* not failed, and the old proxy's shutdown is over, ActiveSdrSources maps k
\* to the new proxy, AvailableProfiles maps k to its name, and the old proxy
\* has no SourceStateHandler attached.
C18_ReplacementInViews ==
    [][\A k \in Keys, props \in Entries :
          (SetItemNew(k, props) /\ registry[k] # NoProxy /\ props.enabled) =>
              /\ registry'[k] # registry[k]
              /\ active'[k] = registry'[k]
              /\ profiles'[k] = props.name
              /\ src'[registry[k]].clients = <<>>
      ]_vars

C20_ProfileIsCurrentName ==
    /\ \A k \in ProfileKeys :
          active[k] # NoProxy /\ profiles[k] = src[active[k]].name
    /\ \A p \in Proxies, name \in Names :
          p < nextId =>
              LET w == setName(World, p, name)
              IN  \A k \in Keys :
                      w.profiles[k] =
                          (IF k = src[p].key /\ profiles[k] # NoName
                           THEN name ELSE profiles[k])

----------------------------------------------------------------------------
(* Lifecycle callbacks delivered concurrently.  Each device fires its
   callbacks on a thread of its own: thread t delivers those of proxy t.  A
   delivery is the device setting its flag and calling its listener, the
   handler's write to the layer of ActiveSdrSources, and the layer's
   notification of AvailableProfiles; sdr.py takes no lock around them, so a
   thread can be preempted between any two. *)

EmptyWorld ==
    [registry |-> [k \in Keys |-> NoProxy], src |-> [p \in Proxies |-> NewSource],
     nextId |-> 1, handlers |-> [k \in Keys |-> NoProxy],
     active |-> [k \in Keys |-> NoProxy], profiles |-> [k \in Keys |-> NoName],
     subscriptions |-> [k \in Keys |-> <<>>], fault |-> "none"]

\* the views after the store delivered two enabled devices, a and b
TwoDevices ==
    Mapped_handleSdrDeviceChange(EmptyWorld,
        <<[key |-> "a", value |-> [type |-> "rtl_sdr", name |-> "Dev A", enabled |-> TRUE]],
          [key |-> "b", value |-> [type |-> "rtl_sdr", name |-> "Dev A", enabled |-> TRUE]]>>,
        1)

InitCb ==
    /\ config = {"a", "b"}
    /\ registry = TwoDevices.registry
    /\ src = TwoDevices.src
    /\ nextId = TwoDevices.nextId
    /\ handlers = TwoDevices.handlers
    /\ active = TwoDevices.active
    /\ profiles = TwoDevices.profiles
    /\ subscriptions = TwoDevices.subscriptions
    /\ fault = "none"
    /\ InitReporting
    /\ svcSources = 1
    /\ svcActive = 1
    /\ svcProfiles = 1
    /\ built = [c \in {"sources", "active", "profiles"} |-> 1]
    /\ pc = [t \in Threads |-> "idle"]
    /\ call = [t \in Threads |-> "none"]
    /\ result = [t \in Threads |-> NoInstance]

\* the change a handler's write to the layer is notified with
LayerChange(t) ==
    [key |-> src[t].key,
     value |-> IF call[t] = "enable" THEN t ELSE PropertyDeleted]

\* the device of thread t changes its flag and calls its SourceStateHandler
CbBegin(t, ev) ==
    /\ pc[t] = "idle"
    /\ t \in Proxies /\ Installed(t)
    /\ src[t].clients # <<>>
    /\ CASE ev = "fail" -> ~src[t].failed /\ src' = [src EXCEPT ![t].failed = TRUE]
         [] ev = "disable" -> src[t].enabled /\ src' = [src EXCEPT ![t].enabled = FALSE]
         [] ev = "enable" -> ~src[t].enabled /\ src' = [src EXCEPT ![t].enabled = TRUE]
    /\ call' = [call EXCEPT ![t] = ev]
    /\ Goto(t, "cb_layer")
    /\ UNCHANGED <<config, registry, nextId, handlers, active, profiles,
                   subscriptions, fault, result, svcObjects, repVars>>

\* onFail / onDisable: del self.pm[self.key]; onEnable: self.pm[self.key] =
\* self.source -- the write to the layer, before the layer notifies
CbLayer(t) ==
    /\ pc[t] = "cb_layer"
    /\ LET k == src[t].key
       IN  IF call[t] = "enable"
           THEN IF active[k] = t
                THEN Goto(t, "idle") /\ UNCHANGED <<active, fault>>
                ELSE /\ active' = [active EXCEPT ![k] = t]
                     /\ Goto(t, "cb_downstream")
                     /\ UNCHANGED fault
           ELSE IF active[k] = NoProxy
                THEN fault' = "KeyError" /\ Goto(t, "idle") /\ UNCHANGED active
                ELSE /\ active' = [active EXCEPT ![k] = NoProxy]
                     /\ Goto(t, "cb_downstream")
                     /\ UNCHANGED fault
    /\ UNCHANGED <<config, registry, src, nextId, handlers, profiles,
                   subscriptions, call, result, svcObjects, repVars>>

\* the layer notifies AvailableProfiles.handleSdrDeviceChange on the same thread
CbDownstream(t) ==
    /\ pc[t] = "cb_downstream"
    /\ LET w == Profiles_handleSdrDeviceChange(World, <<LayerChange(t)>>)
       IN  /\ src' = w.src
           /\ profiles' = w.profiles
           /\ subscriptions' = w.subscriptions
           /\ fault' = w.fault
    /\ Goto(t, "idle")
    /\ UNCHANGED <<config, registry, nextId, handlers, active,
                   call, result, svcObjects, repVars>>

NextCb ==
    \/ \E t \in Threads, ev \in {"fail", "disable", "enable"} : CbBegin(t, ev)
    \/ \E t \in Threads : CbLayer(t)
    \/ \E t \in Threads : CbDownstream(t)

SpecCb == InitCb /\ [][NextCb]_vars

\* C17: mutations of one overlay are serialized: at most one thread at a time
\* is between its write to the layer of ActiveSdrSources and the end of the
\* reconciliation of AvailableProfiles that the write triggers.
C17_OverlayMutationsSerialized ==
    Cardinality({t \in Threads : pc[t] = "cb_downstream"}) <= 1

====
